---- MODULE Spec2Model ----
(***************************************************************************)
(* The terminal snake game of snake.go: the game state (snake, food,       *)
(* direction, gameOver, score), the scheduler loop gameLoop that selects   *)
(* over the ticker, inputCh and quitCh, and the input task readInput.      *)
(***************************************************************************)
EXTENDS Integers, Sequences, FiniteSets

\* Grid dimensions.  snake.go sets width = 25 and height = 20; the model
\* keeps the code's formulas in terms of width and height and checks them
\* on a small grid, so that walls, self-collision and a full board are
\* all within reach.
width == 4
height == 2

\* The reward added to score when the food is eaten (score += 10).
Reward == 10

\* The number of arrow keys the input task decodes in a traced run.
MaxEvents == 3

\* The item service: the number of requests in flight at once, and the
\* value of idSeq up to which a create is still accepted.
NumReq == 2
MaxId == 2

VARIABLES
    snake,        \* []Position, head first
    food,         \* Position
    direction,    \* "UP" | "DOWN" | "LEFT" | "RIGHT"
    gameOver,     \* bool
    score,        \* int
    pc,           \* gameLoop: "select" | "placeFood" | "stopped"
    inPc,         \* readInput: "poll" | "send" | "done"
    key,          \* the string readInput is blocked sending on inputCh
    quitClosed,   \* quitCh has been closed
    lastMove,     \* history: the direction the latest move() used
    latestValid,  \* history: latest request since the latest move() that
                  \* is not the opposite of lastMove (lastMove if none)
    track,        \* this run is traced: the four histories below are kept
    rendered,     \* history: the latest pass of the ticker case ran draw()
    decoded,      \* history: the arrow keys readInput decoded, in order
    applied,      \* history: the keys handed to handleInput, in order
    prevSnake,    \* history: the body before the latest move()
    items,        \* item service: map[int]Item
    mu,           \* item service: the holder of the mutex, 0 when free
    idSeq,        \* item service: the next ID
    rq,           \* item service: the handler goroutines
    issued        \* history: the keys createItem stored under, in order

\* The histories of a traced run, with the switch.
traceVars == <<track, decoded, applied, prevSnake>>

\* The variables of the item service.
itemVars == <<items, mu, idSeq, rq, issued>>

\* The variables of the game.
snakeVars == <<snake, food, direction, gameOver, score, pc, inPc, key,
               quitClosed, lastMove, latestValid, rendered, traceVars>>

vars == <<snakeVars, itemVars>>

gameVars == <<snake, food, direction, gameOver, score>>

Dirs == {"UP", "DOWN", "LEFT", "RIGHT"}

NoKey == "NONE"

\* Cells with the second coordinate drawn from rand.Intn(width) too.
CellsSquare ==
    {[X |-> x, Y |-> y] : x \in 0..(width - 1), y \in 0..(width - 1)}

\* type Position struct { X int; Y int }
Pos(x, y) == [X |-> x, Y |-> y]

\* The cells rand.Intn(width), rand.Intn(height) can produce.
Cells == {Pos(x, y) : x \in 0..(width - 1), y \in 0..(height - 1)}

\* s[:len(s)-1]
DropLast(s) == SubSeq(s, 1, Len(s) - 1)

\* NewHead with the vertical axis inverted (UP adds to Y, DOWN subtracts).
NewHeadAxisInverted(head, dir) ==
    CASE dir = "UP"    -> Pos(head.X, head.Y + 1)
      [] dir = "DOWN"  -> Pos(head.X, head.Y - 1)
      [] dir = "LEFT"  -> Pos(head.X - 1, head.Y)
      [] dir = "RIGHT" -> Pos(head.X + 1, head.Y)
      [] OTHER         -> Pos(head.X, head.Y)

\* The switch of move(): the head offset by one cell along dir.
NewHead(head, dir) ==
    CASE dir = "UP"    -> Pos(head.X, head.Y - 1)
      [] dir = "DOWN"  -> Pos(head.X, head.Y + 1)
      [] dir = "LEFT"  -> Pos(head.X - 1, head.Y)
      [] dir = "RIGHT" -> Pos(head.X + 1, head.Y)
      [] OTHER         -> Pos(head.X, head.Y)

\* move(): whether the new head is on the food.
Eats(newHead, f) == newHead.X = f.X /\ newHead.Y = f.Y

\* MoveBody dropping the last element in both branches.
MoveBodyNeverGrows(s, dir, f) ==
    DropLast(<<NewHead(s[1], dir)>> \o s)

\* move(): the body after the step; the tail is kept when the food is eaten.
MoveBody(s, dir, f) ==
    LET newHead == NewHead(s[1], dir)
        grown   == <<newHead>> \o s
    IN  IF Eats(newHead, f) THEN grown ELSE DropLast(grown)

\* WallCollision one cell early at the far walls.
WallCollisionEarly(head) ==
    head.X < 0 \/ head.X >= width - 1 \/ head.Y < 0 \/ head.Y >= height - 1

\* WallCollision with > for >= at the far walls.
WallCollisionOffByOne(head) ==
    head.X < 0 \/ head.X > width \/ head.Y < 0 \/ head.Y > height

\* checkCollisions(): the wall test on the head.
WallCollision(head) ==
    head.X < 0 \/ head.X >= width \/ head.Y < 0 \/ head.Y >= height

\* SelfCollision ranging over snake[1:len(snake)-1], which leaves out the
\* last segment.
SelfCollisionSkipsLast(s) ==
    \E i \in 2..(Len(s) - 1) : s[1].X = s[i].X /\ s[1].Y = s[i].Y

\* checkCollisions(): the self test, head against snake[1:].
SelfCollision(s) ==
    \E i \in 2..Len(s) : s[1].X = s[i].X /\ s[1].Y = s[i].Y

\* checkCollisions(): the value of gameOver after the call.
CheckCollisions(s, over) == over \/ WallCollision(s[1]) \/ SelfCollision(s)

\* ValidPosition comparing the sampled cell with the head alone.
ValidPositionHeadOnly(f, s) ==
    ~ (f.X = s[1].X /\ f.Y = s[1].Y)

\* placeFood(): validPosition for a sampled cell.
ValidPosition(f, s) ==
    ~ \E i \in 1..Len(s) : f.X = s[i].X /\ f.Y = s[i].Y

\* handleInput(): the direction after a key.
HandleInput(dir, k) ==
    CASE k = "UP"    -> IF dir # "DOWN"  THEN k ELSE dir
      [] k = "DOWN"  -> IF dir # "UP"    THEN k ELSE dir
      [] k = "LEFT"  -> IF dir # "RIGHT" THEN k ELSE dir
      [] k = "RIGHT" -> IF dir # "LEFT"  THEN k ELSE dir
      [] OTHER       -> dir

\* The opposite-pair relation of the directions.
Opposite(d) ==
    CASE d = "UP"    -> "DOWN"
      [] d = "DOWN"  -> "UP"
      [] d = "LEFT"  -> "RIGHT"
      [] d = "RIGHT" -> "LEFT"
      [] OTHER       -> d

\* initializeGame(): snake, direction, gameOver, score, then placeFood();
\* readInput is started and gameLoop is at its select.
GameInit ==
    /\ snake = <<Pos(width \div 2 - 2, height \div 2)>>
    /\ direction = "RIGHT"
    /\ gameOver = FALSE
    /\ score = 0
    /\ food \in {f \in Cells : ValidPosition(f, snake)}
    /\ pc = "select"
    /\ inPc = "poll"
    /\ key = NoKey
    /\ quitClosed = FALSE
    /\ lastMove = "RIGHT"
    /\ latestValid = "RIGHT"
    /\ rendered = FALSE
    /\ decoded = <<>>
    /\ applied = <<>>
    /\ prevSnake = <<>>

\* The handler goroutines of the item service.
Reqs == 1..NumReq

\* The request bodies json.Decode accepts: a name, a price, and an id the
\* client may have sent along.
Bodies ==
    {[ID |-> 0, Name |-> "a", Price |-> 5], [ID |-> 1, Name |-> "b", Price |-> 5]}

\* A handler goroutine with no request.
Idle ==
    [pc |-> "idle", op |-> "none", id |-> 0,
     item |-> [ID |-> 0, Name |-> "a", Price |-> 5], list |-> <<>>]

\* The zero value of Item, which items[id] yields for a missing key.
ZeroItem == [ID |-> 0, Name |-> "", Price |-> 0]

\* The orders in which a range over a map with keys S can visit them.
KeyOrders(S) ==
    {o \in [1..Cardinality(S) -> S] :
        \A i, j \in 1..Cardinality(S) : i # j => o[i] # o[j]}

\* The item service as its package starts: items empty, idSeq = 1.
ServiceInit ==
    /\ items = [k \in {} |-> Idle.item]
    /\ mu = 0
    /\ idSeq = 1
    /\ rq = [r \in Reqs |-> Idle]
    /\ issued = <<>>

\* The item service with no handler goroutine: the game is a program of
\* its own and serves no request.
ServiceOff ==
    /\ items = <<>>
    /\ mu = 0
    /\ idSeq = 1
    /\ rq = <<>>
    /\ issued = <<>>

\* The game as main() starts it.
Init == GameInit /\ track = FALSE /\ ServiceOff

\* The same start, traced.
TraceInit == GameInit /\ track = TRUE /\ ServiceOff

\* TickMove testing the move before making it: a lethal move sets gameOver
\* and leaves the body where it was.
TickMoveChecksFirst ==
    /\ UNCHANGED itemVars
    /\ pc = "select"
    /\ ~gameOver
    /\ ~Eats(NewHead(snake[1], direction), food)
    /\ gameOver' = CheckCollisions(MoveBody(snake, direction, food), gameOver)
    /\ snake' = IF gameOver' THEN snake ELSE MoveBody(snake, direction, food)
    /\ lastMove' = direction
    /\ latestValid' = direction
    /\ rendered' = (IF track THEN TRUE ELSE rendered)
    /\ prevSnake' = IF track THEN snake ELSE prevSnake
    /\ UNCHANGED <<food, direction, score, pc, inPc, key, quitClosed>>
    /\ UNCHANGED <<track, decoded, applied>>

\* TickMove testing the head against the body before the tail is dropped.
TickMoveChecksGrown ==
    /\ UNCHANGED itemVars
    /\ pc = "select"
    /\ ~gameOver
    /\ ~Eats(NewHead(snake[1], direction), food)
    /\ snake' = MoveBody(snake, direction, food)
    /\ gameOver' =
          CheckCollisions(<<NewHead(snake[1], direction)>> \o snake, gameOver)
    /\ lastMove' = direction
    /\ latestValid' = direction
    /\ rendered' = (IF track THEN TRUE ELSE rendered)
    /\ prevSnake' = IF track THEN snake ELSE prevSnake
    /\ UNCHANGED <<food, direction, score, pc, inPc, key, quitClosed>>
    /\ UNCHANGED <<track, decoded, applied>>

\* TickMove without the call of draw().
TickMoveNoDraw ==
    /\ UNCHANGED itemVars
    /\ pc = "select"
    /\ ~gameOver
    /\ ~Eats(NewHead(snake[1], direction), food)
    /\ snake' = MoveBody(snake, direction, food)
    /\ gameOver' = CheckCollisions(snake', gameOver)
    /\ lastMove' = direction
    /\ latestValid' = direction
    /\ rendered' = (IF track THEN FALSE ELSE rendered)
    /\ prevSnake' = IF track THEN snake ELSE prevSnake
    /\ UNCHANGED <<food, direction, score, pc, inPc, key, quitClosed>>
    /\ UNCHANGED <<track, decoded, applied>>

\* TickMove with the reward added outside the branch that eats.
TickMoveScores ==
    /\ UNCHANGED itemVars
    /\ pc = "select"
    /\ ~gameOver
    /\ ~Eats(NewHead(snake[1], direction), food)
    /\ snake' = MoveBody(snake, direction, food)
    /\ gameOver' = CheckCollisions(snake', gameOver)
    /\ score' = score + Reward
    /\ lastMove' = direction
    /\ latestValid' = direction
    /\ rendered' = (IF track THEN TRUE ELSE rendered)
    /\ prevSnake' = IF track THEN snake ELSE prevSnake
    /\ UNCHANGED <<food, direction, pc, inPc, key, quitClosed>>
    /\ UNCHANGED <<track, decoded, applied>>

\* gameLoop, case <-ticker.C while the game is on, the food not eaten:
\* move(), checkCollisions(), draw().
TickMove ==
    /\ UNCHANGED itemVars
    /\ pc = "select"
    /\ ~gameOver
    /\ ~Eats(NewHead(snake[1], direction), food)
    /\ snake' = MoveBody(snake, direction, food)
    /\ gameOver' = CheckCollisions(snake', gameOver)
    /\ lastMove' = direction
    /\ latestValid' = direction
    /\ rendered' = (IF track THEN TRUE ELSE rendered)
    /\ prevSnake' = IF track THEN snake ELSE prevSnake
    /\ UNCHANGED <<food, direction, score, pc, inPc, key, quitClosed>>
    /\ UNCHANGED <<track, decoded, applied>>

\* gameLoop, case <-ticker.C while the game is on, the food eaten: move()
\* grows the body, adds the reward and enters the loop of placeFood().
TickEat ==
    /\ UNCHANGED itemVars
    /\ pc = "select"
    /\ ~gameOver
    /\ Eats(NewHead(snake[1], direction), food)
    /\ snake' = MoveBody(snake, direction, food)
    /\ score' = score + Reward
    /\ pc' = "placeFood"
    /\ lastMove' = direction
    /\ latestValid' = direction
    /\ prevSnake' = IF track THEN snake ELSE prevSnake
    /\ UNCHANGED <<food, direction, gameOver, inPc, key, quitClosed>>
    /\ UNCHANGED <<rendered, track, decoded, applied>>

\* One iteration of the loop of placeFood() sampling cell f.  A valid cell
\* ends the loop: move() returns, checkCollisions() and draw() run and the
\* scheduler is back at its select.  Otherwise the loop goes round again.
PlaceFoodIter(f) ==
    /\ UNCHANGED itemVars
    /\ pc = "placeFood"
    /\ food' = f
    /\ IF ValidPosition(f, snake)
       THEN /\ pc' = "select"
            /\ gameOver' = CheckCollisions(snake, gameOver)
            /\ rendered' = (IF track THEN TRUE ELSE rendered)
       ELSE UNCHANGED <<pc, gameOver, rendered>>
    /\ UNCHANGED <<snake, direction, score, inPc, key, quitClosed,
                   lastMove, latestValid, traceVars>>

PlaceFood == \E f \in Cells : PlaceFoodIter(f)

\* TickOver without the test of gameOver: the body keeps moving.
TickOverMoves ==
    /\ UNCHANGED itemVars
    /\ pc = "select"
    /\ gameOver
    /\ snake' = MoveBody(snake, direction, food)
    /\ rendered' = (IF track THEN TRUE ELSE rendered)
    /\ UNCHANGED <<food, direction, gameOver, score, pc, inPc, key,
                   quitClosed, lastMove, latestValid, traceVars>>

\* gameLoop, case <-ticker.C with gameOver set: nothing runs, draw()
\* included.
TickOver ==
    /\ UNCHANGED itemVars
    /\ pc = "select"
    /\ gameOver
    /\ rendered' = (IF track THEN FALSE ELSE rendered)
    /\ UNCHANGED <<gameVars, pc, inPc, key, quitClosed, lastMove,
                   latestValid, traceVars>>

\* RecvInput with a move() right after handleInput(key).
RecvInputMoves ==
    /\ UNCHANGED itemVars
    /\ pc = "select"
    /\ inPc = "send"
    /\ direction' = HandleInput(direction, key)
    /\ snake' = DropLast(<<NewHead(snake[1], direction')>> \o snake)
    /\ latestValid' = IF key # Opposite(lastMove) THEN key ELSE latestValid
    /\ inPc' = "poll"
    /\ key' = NoKey
    /\ applied' = IF track THEN Append(applied, key) ELSE applied
    /\ UNCHANGED <<food, gameOver, score, pc, quitClosed, lastMove>>
    /\ UNCHANGED <<rendered, track, decoded, prevSnake>>

\* gameLoop, case key := <-inputCh: the rendezvous with the blocked send
\* of readInput, then handleInput(key).
RecvInput ==
    /\ UNCHANGED itemVars
    /\ pc = "select"
    /\ inPc = "send"
    /\ direction' = HandleInput(direction, key)
    /\ latestValid' = IF key # Opposite(lastMove) THEN key ELSE latestValid
    /\ inPc' = "poll"
    /\ key' = NoKey
    /\ applied' = IF track THEN Append(applied, key) ELSE applied
    /\ UNCHANGED <<snake, food, gameOver, score, pc, quitClosed, lastMove>>
    /\ UNCHANGED <<rendered, track, decoded, prevSnake>>

\* gameLoop, case <-quitCh: return.
RecvQuit ==
    /\ UNCHANGED itemVars
    /\ pc = "select"
    /\ quitClosed
    /\ pc' = "stopped"
    /\ UNCHANGED <<gameVars, inPc, key, quitClosed, lastMove, latestValid>>
    /\ UNCHANGED <<rendered, traceVars>>

\* PollArrow with a send that does not wait: a key still on inputCh is
\* replaced by the next one.
PollArrowNonBlocking ==
    /\ UNCHANGED itemVars
    /\ inPc \in {"poll", "send"}
    /\ track => Len(decoded) < MaxEvents
    /\ \E k \in Dirs :
          /\ key' = k
          /\ decoded' = IF track THEN Append(decoded, k) ELSE decoded
    /\ inPc' = "send"
    /\ UNCHANGED <<gameVars, pc, quitClosed, lastMove, latestValid>>
    /\ UNCHANGED <<rendered, track, applied, prevSnake>>

\* PollArrow with handleInput called by the input task itself.
PollArrowSetsDirection ==
    /\ UNCHANGED itemVars
    /\ inPc = "poll"
    /\ track => Len(decoded) < MaxEvents
    /\ \E k \in Dirs :
          /\ key' = k
          /\ direction' = HandleInput(direction, k)
          /\ decoded' = IF track THEN Append(decoded, k) ELSE decoded
    /\ inPc' = "send"
    /\ UNCHANGED <<snake, food, gameOver, score, pc, quitClosed, lastMove,
                   latestValid>>
    /\ UNCHANGED <<rendered, track, applied, prevSnake>>

\* readInput: PollEvent returns an arrow key, which the task goes on to
\* send on inputCh.
PollArrow ==
    /\ UNCHANGED itemVars
    /\ inPc = "poll"
    /\ track => Len(decoded) < MaxEvents
    /\ \E k \in Dirs :
          /\ key' = k
          /\ decoded' = IF track THEN Append(decoded, k) ELSE decoded
    /\ inPc' = "send"
    /\ UNCHANGED <<gameVars, pc, quitClosed, lastMove, latestValid>>
    /\ UNCHANGED <<rendered, track, applied, prevSnake>>

\* readInput: PollEvent returns 'q' or Esc: close(quitCh) and return.
PollQuit ==
    /\ UNCHANGED itemVars
    /\ inPc = "poll"
    /\ quitClosed' = TRUE
    /\ inPc' = "done"
    /\ UNCHANGED <<gameVars, pc, key, lastMove, latestValid>>
    /\ UNCHANGED <<rendered, traceVars>>

\* readInput: PollEvent returns any other event; the loop polls again.
PollOther ==
    /\ inPc = "poll"
    /\ UNCHANGED vars

Next ==
    \/ TickMove
    \/ TickEat
    \/ PlaceFood
    \/ TickOver
    \/ RecvInput
    \/ RecvQuit
    \/ PollArrow
    \/ PollQuit
    \/ PollOther

Spec == Init /\ [][Next]_vars

\* The traced game: at most MaxEvents arrow keys, with the histories kept.
TraceSpec == TraceInit /\ [][Next]_vars

\* The item service.  A request is handled by its own goroutine; the steps
\* below are the statements of the handlers that touch items, idSeq or mu.

\* getItems: the handler goes on to mu.Lock().
StartGetItems(r) ==
    /\ rq[r].pc = "idle"
    /\ rq' = [rq EXCEPT ![r].pc = "lock", ![r].op = "list"]
    /\ UNCHANGED <<snakeVars, items, mu, idSeq, issued>>

\* getItem: the id of the path is decoded.
StartGetItem(r) ==
    /\ rq[r].pc = "idle"
    /\ \E i \in 1..MaxId :
          rq' = [rq EXCEPT ![r].pc = "lock", ![r].op = "get", ![r].id = i]
    /\ UNCHANGED <<snakeVars, items, mu, idSeq, issued>>

\* createItem: the body is decoded; the handler goes on to mu.Lock().
StartCreate(r) ==
    /\ rq[r].pc = "idle"
    /\ idSeq <= MaxId
    /\ \E b \in Bodies :
          rq' = [rq EXCEPT ![r].pc = "lock", ![r].op = "create", ![r].item = b]
    /\ UNCHANGED <<snakeVars, items, mu, idSeq, issued>>

\* updateItem: the id of the path and the body are decoded.
StartUpdate(r) ==
    /\ rq[r].pc = "idle"
    /\ \E i \in 1..MaxId, b \in Bodies :
          rq' = [rq EXCEPT ![r].pc = "lock", ![r].op = "update",
                           ![r].id = i, ![r].item = b]
    /\ UNCHANGED <<snakeVars, items, mu, idSeq, issued>>

\* deleteItem: the id of the path is decoded.
StartDelete(r) ==
    /\ rq[r].pc = "idle"
    /\ \E i \in 1..MaxId :
          rq' = [rq EXCEPT ![r].pc = "lock", ![r].op = "delete", ![r].id = i]
    /\ UNCHANGED <<snakeVars, items, mu, idSeq, issued>>

\* Lock without the wait for the mutex to be free.
LockNoWait(r) ==
    /\ rq[r].pc = "lock"
    /\ mu' = r
    /\ rq' = [rq EXCEPT ![r].pc = rq[r].op]
    /\ UNCHANGED <<snakeVars, items, idSeq, issued>>

\* mu.Lock() of a handler.
Lock(r) ==
    /\ rq[r].pc = "lock"
    /\ mu = 0
    /\ mu' = r
    /\ rq' = [rq EXCEPT ![r].pc = rq[r].op]
    /\ UNCHANGED <<snakeVars, items, idSeq, issued>>

\* getItems under the mutex: itemList collects the items in the order the
\* range over the map visits them.
GetItems(r) ==
    /\ rq[r].pc = "list"
    /\ \E o \in KeyOrders(DOMAIN items) :
          rq' = [rq EXCEPT ![r].list = [i \in 1..Cardinality(DOMAIN items) |->
                                           items[o[i]]],
                           ![r].pc = "unlock"]
    /\ UNCHANGED <<snakeVars, items, mu, idSeq, issued>>

\* getItem under the mutex: item, exists := items[id].
GetItem(r) ==
    /\ rq[r].pc = "get"
    /\ rq' = [rq EXCEPT ![r].item = IF rq[r].id \in DOMAIN items
                                    THEN items[rq[r].id] ELSE ZeroItem,
                        ![r].pc = "unlock"]
    /\ UNCHANGED <<snakeVars, items, mu, idSeq, issued>>

\* createItem: newItem.ID = idSeq
CreateAssign(r) ==
    /\ rq[r].pc = "create"
    /\ rq' = [rq EXCEPT ![r].item.ID = idSeq, ![r].pc = "store"]
    /\ UNCHANGED <<snakeVars, items, mu, idSeq, issued>>

\* createItem: items[idSeq] = newItem
CreateStore(r) ==
    /\ rq[r].pc = "store"
    /\ items' = [k \in DOMAIN items \cup {idSeq} |->
                   IF k = idSeq THEN rq[r].item ELSE items[k]]
    /\ issued' = Append(issued, idSeq)
    /\ rq' = [rq EXCEPT ![r].pc = "incr"]
    /\ UNCHANGED <<snakeVars, mu, idSeq>>

\* createItem: idSeq++
CreateIncr(r) ==
    /\ rq[r].pc = "incr"
    /\ idSeq' = idSeq + 1
    /\ rq' = [rq EXCEPT ![r].pc = "unlock"]
    /\ UNCHANGED <<snakeVars, items, mu, issued>>

\* updateItem under the mutex: not found, or updatedItem.ID = id and
\* items[id] = updatedItem.
UpdateItem(r) ==
    /\ rq[r].pc = "update"
    /\ IF rq[r].id \in DOMAIN items
       THEN /\ items' = [items EXCEPT ![rq[r].id] =
                            [rq[r].item EXCEPT !.ID = rq[r].id]]
            /\ rq' = [rq EXCEPT ![r].item.ID = rq[r].id, ![r].pc = "unlock"]
       ELSE /\ UNCHANGED items
            /\ rq' = [rq EXCEPT ![r].pc = "unlock"]
    /\ UNCHANGED <<snakeVars, mu, idSeq, issued>>

\* deleteItem under the mutex: not found, or delete(items, id).
DeleteItem(r) ==
    /\ rq[r].pc = "delete"
    /\ items' = [k \in DOMAIN items \ {rq[r].id} |-> items[k]]
    /\ rq' = [rq EXCEPT ![r].pc = "unlock"]
    /\ UNCHANGED <<snakeVars, mu, idSeq, issued>>

\* The response is written and the deferred mu.Unlock() runs.
Unlock(r) ==
    /\ rq[r].pc = "unlock"
    /\ mu' = 0
    /\ rq' = [rq EXCEPT ![r] = Idle]
    /\ UNCHANGED <<snakeVars, items, idSeq, issued>>

ItemNext ==
    \E r \in Reqs :
        \/ StartGetItems(r)
        \/ StartGetItem(r)
        \/ StartCreate(r)
        \/ StartUpdate(r)
        \/ StartDelete(r)
        \/ Lock(r)
        \/ GetItems(r)
        \/ GetItem(r)
        \/ CreateAssign(r)
        \/ CreateStore(r)
        \/ CreateIncr(r)
        \/ UpdateItem(r)
        \/ DeleteItem(r)
        \/ Unlock(r)

\* The item service alone; the game's variables rest at a start state.
ItemInit ==
    GameInit /\ food = Pos(width - 1, 0) /\ track = FALSE /\ ServiceInit

ItemSpec == ItemInit /\ [][ItemNext]_vars

\* placeFood() samples a cell that ends its loop.
PlaceFoodDone == \E f \in Cells : ValidPosition(f, snake) /\ PlaceFoodIter(f)

\* The scheduling the runtime gives: a select with quitCh ready picks that
\* case again and again until it is taken, uniform sampling in placeFood()
\* does not avoid the free cells forever, and the loop of placeFood() keeps
\* running while it has not ended.
FairSpec ==
    Spec /\ SF_vars(RecvQuit) /\ WF_vars(PlaceFoodDone) /\ WF_vars(PlaceFood)

----
\* Properties.

\* Every cell of the grid is on the body.
BoardFull == \A c \in Cells : \E i \in 1..Len(snake) : snake[i] = c

\* A step of gameLoop that ran move(): the only steps that change snake.
Moved == snake' # snake

\* C1: a tick never moves the head in the direction opposite to the one
\* the previous tick moved it in, whatever requests came in between.
C1_NoReversal ==
    [][(Moved /\ Len(snake) >= 2) => direction # Opposite(lastMove)]_vars

\* C2: at rest with the game on, the positions of the body are pairwise
\* distinct.
C2_BodyDistinct ==
    (pc # "placeFood" /\ ~gameOver) =>
        \A i, j \in 1..Len(snake) : i # j => snake[i] # snake[j]

\* C2 witness: a live body long enough to bite itself, after a turn.
C2_Witness ==
    /\ pc = "select" /\ ~gameOver /\ Len(snake) >= 5
    /\ snake[1].Y # snake[3].Y

\* C3: at rest the food is on no position of the body.
C3_FoodOffBody ==
    (pc # "placeFood") => \A i \in 1..Len(snake) : snake[i] # food

\* C3 witness: the game is over at rest after the body grew twice.
C3_Witness == pc = "select" /\ gameOver /\ Len(snake) >= 3

\* C4: when the body fills the grid as the food is eaten, placement ends
\* and the game is over with the scheduler back at its select.
C4_FullBoardEndsGame ==
    (pc = "placeFood" /\ BoardFull) ~> (gameOver /\ pc = "select")

\* C5: once gameOver is set, no step changes snake, food or score, and
\* gameOver stays set.
C5_OverIsFrozen ==
    [][gameOver =>
         (gameOver' /\ snake' = snake /\ food' = food /\ score' = score)]_vars

\* C5 witness: the game is over and a direction request was handled since.
C5_Witness == pc = "select" /\ gameOver /\ latestValid # lastMove

\* C6: the direction a tick moves in is the latest request since the
\* previous tick that is not the opposite of the previous tick's direction,
\* and that direction itself when there was none.
C6_LatestValidWins ==
    [][(Moved /\ Len(snake) >= 2) => direction = latestValid]_vars

\* C7: a tick whose new head is one cell outside the grid or on another
\* segment of the updated body sets gameOver in the same step.
C7_CollisionEndsGame ==
    [][(Moved /\ ~gameOver /\
          LET h == snake'[1]
          IN  \/ h.X = -1 \/ h.X = width \/ h.Y = -1 \/ h.Y = height
              \/ \E i \in 2..Len(snake') : snake'[i] = h)
       => gameOver']_vars

\* C7 witness: the game ended with the head one column past the right wall.
C7_Witness == gameOver /\ snake[1].X = width

\* C8: the score stays or grows by exactly 10, and grows only in a step
\* that moves the head onto the food held before the step.
C8_ScoreSteps ==
    [][\/ score' = score
       \/ /\ score' = score + 10
          /\ pc = "select" /\ ~gameOver
          /\ Moved /\ snake'[1] = food]_vars

\* C8 witness: the food was eaten twice.
C8_Witness == score = 20 /\ pc = "select"

\* C9: a tick puts the head one cell along direction; the body is the new
\* head followed by the whole old body when the new head is on the food,
\* and by the old body without its last element otherwise.
C9_MoveShape ==
    [][Moved =>
        LET h  == snake[1]
            nh == [X |-> h.X + (IF direction = "RIGHT" THEN 1 ELSE 0)
                             - (IF direction = "LEFT" THEN 1 ELSE 0),
                   Y |-> h.Y + (IF direction = "DOWN" THEN 1 ELSE 0)
                             - (IF direction = "UP" THEN 1 ELSE 0)]
        IN  /\ ~gameOver
            /\ IF nh = food
               THEN /\ Len(snake') = Len(snake) + 1
                    /\ snake' = <<nh>> \o snake
               ELSE /\ Len(snake') = Len(snake)
                    /\ snake'[1] = nh
                    /\ \A i \in 2..Len(snake) : snake'[i] = snake[i - 1]]_vars

\* C9 witness: a live body of three segments whose latest move was up.
C9_Witness ==
    /\ Len(snake) = 3 /\ lastMove = "UP" /\ pc = "select"
    /\ score = 20 /\ snake[2].Y = snake[1].Y + 1 /\ ~gameOver

\* C10: once quitCh is closed the scheduler loop stops and the input task
\* has returned.
C10_QuitStopsLoop == quitClosed ~> (pc = "stopped" /\ inPc = "done")

\* A step of gameLoop that took a key from inputCh.
Received == inPc = "send" /\ inPc' = "poll"

\* C11 as stated: with the game over, the latest tick has rendered.
C11_EveryTickRenders == (track /\ gameOver /\ pc = "select") => rendered

\* C11: a tick with the game on renders once move() and checkCollisions()
\* are done, the tick that ends the game included; with the game over no
\* step renders, and a tick leaves the latest pass marked as not rendered.
C11_ActiveTicksRender ==
    [][/\ (Moved /\ pc' = "select") => rendered'
       /\ (pc = "placeFood" /\ pc' = "select") => rendered'
       /\ (gameOver /\ rendered' # rendered) => ~rendered']_vars

\* C11 witness: the game is over and a tick has passed without a render.
C11_Witness == track /\ gameOver /\ pc = "select" /\ ~rendered

\* C12: the step that handles a direction key leaves snake, food, score and
\* gameOver as they were, and the scheduler at its select.
C12_InputFrame ==
    [][Received =>
         /\ snake' = snake /\ food' = food
         /\ score' = score /\ gameOver' = gameOver
         /\ pc' = pc]_vars

\* C12 witness: between two ticks of a live game one request was taken and
\* another refused.
C12_Witness ==
    /\ pc = "select" /\ ~gameOver /\ Len(snake) >= 2
    /\ direction # lastMove /\ latestValid # direction

\* C13: the input task changes no game variable; a key is taken only at
\* the select, never inside a tick; and one step is one of move, input or
\* stop, never two of them.
C13_SingleOwner ==
    [][/\ (inPc = "poll" /\ inPc' # inPc) => gameVars' = gameVars
       /\ direction' # direction => (Received /\ pc = "select")
       /\ pc = "placeFood" => (~Received /\ direction' = direction)
       /\ <<snake, food, score, gameOver>>' # <<snake, food, score, gameOver>>
            => (~Received /\ inPc' = inPc /\ pc \in {"select", "placeFood"})
       /\ ~(Moved /\ Received)
       /\ ~(Moved /\ pc' = "stopped")
       /\ ~(Received /\ pc' = "stopped")]_vars

\* C13 witness: a key waits on inputCh while placeFood() is still sampling.
C13_Witness ==
    /\ pc = "placeFood" /\ inPc = "send"
    /\ food # snake[1] /\ \E i \in 2..Len(snake) : snake[i] = food

\* C14: the game starts on, and whenever it is over the head is outside
\* the grid or on another segment of the body.
C14_OverOnlyByCollision ==
    /\ ~gameOver
    /\ [](gameOver =>
            \/ snake[1].X < 0 \/ snake[1].X > width - 1
            \/ snake[1].Y < 0 \/ snake[1].Y > height - 1
            \/ \E i \in 2..Len(snake) : snake[i] = snake[1])

\* C14 witness: the game ended inside the grid, the head on the body.
C14_Witness ==
    /\ gameOver /\ snake[1] \in Cells
    /\ \E i \in 2..Len(snake) : snake[i] = snake[1]

\* C15: the keys handed to handleInput are the keys decoded, in the same
\* order, each once; the only decoded key not yet handed over is the one
\* the input task is blocked sending.
C15_InOrderOnce ==
    track =>
      /\ Len(applied) <= Len(decoded)
      /\ \A i \in 1..Len(applied) : applied[i] = decoded[i]
      /\ Len(decoded) - Len(applied) = (IF inPc = "send" THEN 1 ELSE 0)
      /\ inPc = "send" => key = decoded[Len(decoded)]

\* C15 witness: three keys went through, not all the same, around ticks.
C15_Witness ==
    /\ track /\ Len(applied) = 3 /\ applied[1] # applied[2]
    /\ Len(snake) >= 2 /\ pc = "select"

\* C16: the step that sets gameOver also moves the body: the head goes one
\* cell along direction onto the lethal cell and every other segment takes
\* the place of the one before it.
C16_LethalMoveApplied ==
    [][(~gameOver /\ gameOver') =>
        LET h  == snake[1]
            nh == [X |-> h.X + (IF direction = "RIGHT" THEN 1 ELSE 0)
                             - (IF direction = "LEFT" THEN 1 ELSE 0),
                   Y |-> h.Y + (IF direction = "DOWN" THEN 1 ELSE 0)
                             - (IF direction = "UP" THEN 1 ELSE 0)]
        IN  /\ snake'[1] = nh
            /\ Len(snake') = Len(snake)
            /\ \A i \in 2..Len(snake) : snake'[i] = snake[i - 1]
            /\ \/ nh.X = -1 \/ nh.X = width \/ nh.Y = -1 \/ nh.Y = height
               \/ \E i \in 1..(Len(snake) - 1) : snake[i] = nh]_vars

\* C16 witness: a body of two going left from column 0 ends past the wall.
C16_Witness ==
    /\ gameOver /\ Len(snake) = 2
    /\ snake[1].X = -1 /\ snake[2].X = 0 /\ snake[2].Y = snake[1].Y

\* C17: a move that does not eat and puts the head on the cell the last
\* segment held before the move leaves the game on.
C17_TailCellIsFree ==
    [][(Moved /\ ~gameOver /\ Len(snake) >= 2 /\ Len(snake') = Len(snake)
          /\ snake'[1] = snake[Len(snake)])
       => ~gameOver']_vars

\* C17 witness: a live body of four whose head is on the cell its last
\* segment held before the latest move.
C17_Witness ==
    /\ track /\ pc = "select" /\ ~gameOver
    /\ Len(snake) = 4 /\ Len(prevSnake) = 4
    /\ snake[1] = prevSnake[4]

\* C18: with a free cell left, placeFood() ends, and it ends with the food
\* inside the grid and off the body.
C18_PlaceFoodEnds ==
    (pc = "placeFood" /\ Len(snake) < width * height)
      ~> /\ pc = "select"
         /\ food.X >= 0 /\ food.X < width /\ food.Y >= 0 /\ food.Y < height
         /\ \A i \in 1..Len(snake) : snake[i] # food

\* C18 witness: placeFood() has ended with one free cell on the grid.
C18_Witness ==
    /\ pc = "select" /\ ~gameOver /\ Len(snake) = width * height - 1
    /\ \A i \in 1..Len(snake) : snake[i] # food

\* C19: at rest the score is ten times the number of segments after the
\* first.
C19_ScoreIsLength ==
    (pc # "placeFood") => score = 10 * (Len(snake) - 1)

\* C19 witness: a body of four at rest.
C19_Witness == pc = "select" /\ Len(snake) = 4 /\ score = 30

\* C20: the keys createItem stores under are strictly increasing, so no
\* two creates get the same key and the key of a deleted item does not come
\* back; and every stored item carries its key as its ID.
C20_FreshIds ==
    /\ \A i, j \in 1..Len(issued) : i < j => issued[i] < issued[j]
    /\ \A k \in DOMAIN items : items[k].ID = k

\* C20 witness: an item was deleted, and of two creates in flight one has
\* stored under the mutex while the other waits for it.
C20_Witness ==
    /\ Len(issued) >= 2
    /\ \E i \in 1..Len(issued) : issued[i] \notin DOMAIN items
    /\ rq[1].op = "create" /\ rq[1].pc = "incr"
    /\ rq[2].op = "create" /\ rq[2].pc = "lock"

====
